---------------------------- MODULE Spec2Model ----------------------------
(***************************************************************************)
(* Model of the Cortex-M MPU module of the Chrome EC                        *)
(* (src/core/cortex-m/mpu.c): the region encoder mpu_config_region, the     *)
(* region programmer mpu_update_region, the rollback lock and the boot      *)
(* sequence mpu_pre_init, over the MPU's registers; and of the battery      *)
(* disconnect latch of the eve board (src/board/eve/battery.c).             *)
(*                                                                          *)
(* Addresses and sizes are naturals below 2^(MaxSizeBit+2), far below 2^32, *)
(* so no uint32_t operation of the code wraps in the modelled range.        *)
(***************************************************************************)
EXTENDS Integers, Sequences, FiniteSets, TLC

VARIABLES cfg, hw, call, rb, irq, bat

vars == <<cfg, hw, call, rb, irq, bat>>

(***************************************************************************)
(* Bounds of the model.                                                     *)
(***************************************************************************)
\* Largest size_bit (index of the top set bit) of a size passed to
\* mpu_config_region by the ConfigRegion action.
MaxSizeBit == 10

(***************************************************************************)
(* Constants of the program.                                                *)
(***************************************************************************)
\* Return codes, kept symbolic: mpu_update_region and mpu_config_region
\* return the negated code, mpu_pre_init the positive one.
EC_SUCCESS == "EC_SUCCESS"
NEG_EC_ERROR_INVAL == "-EC_ERROR_INVAL"
EC_ERROR_HW_INTERNAL == "EC_ERROR_HW_INTERNAL"
EC_ERROR_UNIMPLEMENTED == "EC_ERROR_UNIMPLEMENTED"

\* Minimum region size exponent (32 bytes).
MPU_SIZE_BITS_MIN == 5

\* enum mpu_region
REGION_DATA_RAM == 0
REGION_STORAGE == 4
REGION_STORAGE2 == 5
REGION_DATA_RAM_TEXT == 6
REGION_CHIP_RESERVED == 7
REGION_UNCACHED_RAM == 8
REGION_ROLLBACK == 10

\* Number of region slots of the largest supported MPU.
MaxRegions == 16

\* Attribute bits (the upper half-word of the region attribute and size
\* register).
MPU_ATTR_XN == 2^12
MPU_ATTR_NO_NO == 0 * 2^8
MPU_ATTR_RW_RW == 3 * 2^8
MPU_ATTR_INTERNAL_SRAM == 2 + 4
MPU_ATTR_FLASH_MEMORY == 2 + 0

\* Bits of MPU_CTRL.
MPU_CTRL_BITS == {"PRIVDEFEN", "HFNMIENA", "ENABLE"}

(***************************************************************************)
(* Bit arithmetic of the C code.                                            *)
(***************************************************************************)
BIT(nr) == 2^nr

RECURSIVE BitAnd(_, _)
\* a & b on naturals
BitAnd(a, b) ==
    IF a = 0 \/ b = 0 THEN 0
    ELSE (a % 2) * (b % 2) + 2 * BitAnd(a \div 2, b \div 2)

RECURSIVE Fls(_)
\* 31 - __builtin_clz(x): index of the most significant set bit, x > 0
Fls(x) == IF x <= 1 THEN 0 ELSE 1 + Fls(x \div 2)

\* POWER_OF_TWO(x)
POWER_OF_TWO(x) == x /= 0 /\ BitAnd(x, x - 1) = 0

\* is_aligned(addr, align), align a power of two
is_aligned(addr, align) == POWER_OF_TWO(align) /\ BitAnd(addr, align - 1) = 0

\* Conversion to uint8_t
U8(x) == x % 256

(***************************************************************************)
(* The MPU's registers.  A slot is its base address register and its 32-bit *)
(* attribute and size word: attr << 16 | srd << 8 | (size_bit - 1) << 1 |   *)
(* enable.                                                                  *)
(***************************************************************************)
Slots == 0 .. (MaxRegions - 1)

ResetSlot == [base |-> 0, rasr |-> 0]

ResetHw ==
    [slot   |-> [i \in Slots |-> ResetSlot],
     number |-> 0,
     ctrl   |-> {},
     caches |-> FALSE,
     step   |-> "",
     log    |-> <<>>]

\* Fields of the attribute and size word.
RasrEnable(w) == w % 2
RasrSizeBit(w) == ((w \div 2) % 32) + 1
RasrSrd(w) == (w \div 2^8) % 256
RasrAttr(w) == w \div 2^16

\* One entry of the record of register accesses of the running call.
Ev(h, ev, a, b) == [step |-> h.step, ev |-> ev, a |-> a, b |-> b]

Logged(h, ev, a, b) == [h EXCEPT !.log = Append(@, Ev(h, ev, a, b))]

\* asm volatile("isb; dsb;")
Barrier(h) == Logged(h, "isb_dsb", 0, 0)

\* MPU_NUMBER = region
WriteNumber(h, region) ==
    [Logged(h, "MPU_NUMBER", region, 0) EXCEPT !.number = region]

\* Mutant: the enable bit of the selected slot is left as it is.
ClearEnable_Kept(h) == Logged(h, "MPU_SIZE_DISABLE", h.number, 0)

\* Mutant: MPU_SIZE ^= 1, the enable bit of the selected slot is flipped.
ClearEnable_Toggled(h) ==
    [Logged(h, "MPU_SIZE_DISABLE", h.number, 0) EXCEPT
        !.slot[h.number].rasr = IF @ % 2 = 1 THEN @ - 1 ELSE @ + 1]

\* MPU_SIZE &= ~1 on the selected slot
ClearEnable(h) ==
    [Logged(h, "MPU_SIZE_DISABLE", h.number, 0) EXCEPT
        !.slot[h.number].rasr = @ - (@ % 2)]

\* MPU_BASE = addr on the selected slot
WriteBase(h, addr) ==
    [Logged(h, "MPU_BASE", h.number, addr) EXCEPT !.slot[h.number].base = addr]

\* REG32(&MPU_SIZE) = word on the selected slot
WriteRasr(h, word) ==
    [Logged(h, "MPU_SIZE", h.number, word) EXCEPT !.slot[h.number].rasr = word]

\* A result of a function: the hardware after it and its return value.
Ret(h, rv) == [h |-> h, rv |-> rv]

(***************************************************************************)
(* mpu_update_region                                                        *)
(***************************************************************************)
\* Mutant: the size field holds size_bit, not size_bit - 1.
PackRasr_SizeBit(attr, srd, size_bit) ==
    attr * 2^16 + srd * 2^8 + size_bit * 2 + 1

PackRasr(attr, srd, size_bit) ==
    attr * 2^16 + srd * 2^8 + (size_bit - 1) * 2 + 1

\* Mutant: the base is checked against half the region size.
Misaligned_Half(addr, size_bit) == ~is_aligned(addr, BIT(size_bit - 1))

\* if (!is_aligned(addr, BIT(size_bit)))
Misaligned(addr, size_bit) == ~is_aligned(addr, BIT(size_bit))

\* Mutant: the slot index may equal the number of regions.
NoSuchRegion_OffByOne(region, n) == region > n

\* if (region >= mpu_num_regions())
NoSuchRegion(region, n) == region >= n

\* if (size_bit < MPU_SIZE_BITS_MIN)
BelowMinBits(size_bit) == size_bit < MPU_SIZE_BITS_MIN

mpu_update_region(h, n, region, addr, size_bit, attr, enable, srd) ==
    IF Misaligned(addr, size_bit) THEN Ret(h, NEG_EC_ERROR_INVAL)
    ELSE IF NoSuchRegion(region, n) THEN Ret(h, NEG_EC_ERROR_INVAL)
    ELSE IF BelowMinBits(size_bit) THEN Ret(h, NEG_EC_ERROR_INVAL)
    ELSE
      LET h1 == ClearEnable(WriteNumber(Barrier(h), region))
          h2 == IF enable /= 0
                THEN WriteRasr(WriteBase(h1, addr),
                               PackRasr(attr, srd, size_bit))
                ELSE h1
      IN  Ret(Barrier(h2), EC_SUCCESS)

(***************************************************************************)
(* mpu_config_region                                                        *)
(***************************************************************************)
\* Mutant: size 0 is not returned early.
ZeroSize_Never(size) == FALSE

\* if (!size)
ZeroSize(size) == size = 0

\* Mutant: a size below the minimum is rounded up to the minimum region.
SizeBitOf_Clamped(size) == IF Fls(size) < 5 THEN 5 ELSE Fls(size)

\* size_bit = 31 - __builtin_clz(size)
SizeBitOf(size) == Fls(size)

\* if (size_bit < 5): the minimum region size is 32 bytes
BelowMinSize(size_bit) == size_bit < 5

\* Mutant: sub-regions are tried from size_bit 6.
NoSubregions_Below6(size_bit) == size_bit < 6

\* if (size_bit < 7): no sub-regions in a region of 128 bytes or less
NoSubregions(size_bit) == size_bit < 7

\* Mutant: the mask 0x7f, seven bits of the size are kept.
Residue_SevenBits(size, size_bit) ==
    size - BitAnd(size, 127 * 2^(size_bit - 6))

\* size & ~(0x3f << (size_bit - 5)): the bits of size outside its six most
\* significant positions
Residue(size, size_bit) ==
    size - BitAnd(size, 63 * 2^(size_bit - 5))

\* blocks = size >> (size_bit - 2)
Blocks(size, size_bit) == U8(size \div 2^(size_bit - 2))

\* Mutant: one block too many is marked occupied.
Srd1_OffByOne(size, size_bit) == U8(BIT(Blocks(size, size_bit) + 1) - 1)

\* srd1 = BIT(blocks) - 1
Srd1(size, size_bit) == U8(BIT(Blocks(size, size_bit)) - 1)

\* Mutant: the size is shifted by size_bit - 4.
Srd2_WrongShift(size, size_bit) ==
    U8(2^(BitAnd(size \div 2^(size_bit - 4), 7)) - 1)

\* srd2 = (1 << ((size >> (size_bit - 5)) & 0x7)) - 1
Srd2(size, size_bit) ==
    U8(2^(BitAnd(size \div 2^(size_bit - 5), 7)) - 1)

\* ~srd converted to the uint8_t parameter
NotSrd(srd) == U8(255 - srd)

\* Mutant: a second region is refused below size_bit 8 only, and in any slot.
SecondRegionRefused_Below8(region, size_bit, srd2) ==
    srd2 /= 0 /\ size_bit < 8

\* if (srd2 && (region == REGION_DATA_RAM_TEXT || size_bit < 10))
SecondRegionRefused(region, size_bit, srd2) ==
    srd2 /= 0 /\ (region = REGION_DATA_RAM_TEXT \/ size_bit < 10)

\* addr += (1 << (size_bit - 2)) * blocks
SecondAddr(addr, size_bit, blocks) == addr + 2^(size_bit - 2) * blocks

mpu_config_region(h, n, region, addr, size, attr, enable) ==
    IF ZeroSize(size) THEN Ret(h, EC_SUCCESS)
    ELSE
      LET size_bit == SizeBitOf(size) IN
      IF BelowMinSize(size_bit) THEN Ret(h, NEG_EC_ERROR_INVAL)
      ELSE IF POWER_OF_TWO(size)
      THEN mpu_update_region(h, n, region, addr, size_bit, attr, enable, 0)
      ELSE IF NoSubregions(size_bit) THEN Ret(h, NEG_EC_ERROR_INVAL)
      ELSE IF Residue(size, size_bit) /= 0 THEN Ret(h, NEG_EC_ERROR_INVAL)
      ELSE
        LET blocks == Blocks(size, size_bit)
            srd1 == Srd1(size, size_bit)
            srd2 == Srd2(size, size_bit)
        IN
        IF SecondRegionRefused(region, size_bit, srd2)
        THEN Ret(h, NEG_EC_ERROR_INVAL)
        ELSE
          LET r1 == mpu_update_region(h, n, region, addr, size_bit + 1,
                                      attr, enable, NotSrd(srd1))
          IN
          IF r1.rv /= EC_SUCCESS THEN r1
          ELSE IF srd2 /= 0
          THEN mpu_update_region(r1.h, n, U8(region + 1),
                                 SecondAddr(addr, size_bit, blocks),
                                 size_bit - 2, attr, enable, NotSrd(srd2))
          ELSE r1

(***************************************************************************)
(* What a slot protects: an enabled slot covers the 2^size_bit bytes at its *)
(* base, less the eighths whose bit is set in srd (0 = subregion enabled).  *)
(***************************************************************************)
SlotSize(s) == 2^RasrSizeBit(s.rasr)

SlotStart(s) == s.base - (s.base % SlotSize(s))

SlotCovers(s, b) ==
    /\ RasrEnable(s.rasr) = 1
    /\ SlotStart(s) <= b
    /\ b < SlotStart(s) + SlotSize(s)
    /\ LET k == ((b - SlotStart(s)) * 8) \div SlotSize(s)
       IN  (RasrSrd(s.rasr) \div 2^k) % 2 = 0

\* Some slot of S covers byte b.
Covered(h, S, b) == \E i \in S : SlotCovers(h.slot[i], b)

\* The slots the running call selected.
Programmed(h) ==
    {h.log[k].a : k \in {j \in 1 .. Len(h.log) : h.log[j].ev = "MPU_NUMBER"}}

\* The addresses where the coverage by S, or the membership in
\* [addr, addr + size), can change: both are constant between two
\* consecutive ones, so they agree everywhere iff they agree at each.
Breakpoints(h, S, addr, size) ==
    {0, addr, addr + size} \cup
    UNION {{SlotStart(h.slot[i]) + k * (SlotSize(h.slot[i]) \div 8) :
                k \in 0 .. 8} : i \in S}

\* The enabled ranges of the slots of S are exactly [addr, addr + size).
CoversExactly(h, S, addr, size) ==
    \A b \in Breakpoints(h, S, addr, size) :
        Covered(h, S, b) <=> (addr <= b /\ b < addr + size)

\* Subregions exist only in regions of 256 bytes and more.
SrdValid(s) == RasrSrd(s.rasr) = 0 \/ SlotSize(s) >= 256

(***************************************************************************)
(* Build and hardware configuration: the MPU_TYPE register and the CONFIG_  *)
(* constants the functions read.                                            *)
(***************************************************************************)
NoRange == [on |-> FALSE, start |-> 0, size |-> 0]

Board(n, unified, rollback, cache, uncached) ==
    [n |-> n, unified |-> unified, rollback |-> rollback,
     cache |-> cache, uncached |-> uncached]

\* mpu_num_regions()
mpu_num_regions(c) == c.n

\* has_mpu()
has_mpu(c) == mpu_num_regions(c) /= 0

\* mpu_is_unified()
mpu_is_unified(c) == c.unified

(***************************************************************************)
(* The record of the last call and of the hardware before it.               *)
(***************************************************************************)
Snapshot(h) ==
    [slot |-> h.slot, number |-> h.number, ctrl |-> h.ctrl,
     caches |-> h.caches]

NoCall ==
    [op |-> "none", region |-> 0, addr |-> 0, size |-> 0, attr |-> 0,
     enable |-> 0, rv |-> EC_SUCCESS, pre |-> Snapshot(ResetHw)]

\* The battery module (src/board/eve/battery.c) before its first call: the
\* static flag of battery_get_disconnect_state is 0 and batt_pres_prev is
\* BP_NOT_SURE.
NoBattery ==
    [op |-> "none", not_disconnected |-> 0, batt_pres_prev |-> "BP_NOT_SURE",
     ret |-> "none", present |-> "none", reads |-> <<>>, env |-> <<>>,
     latched |-> FALSE]

\* The hardware as a call finds it: an empty record of accesses.
Enter(h, op) == [h EXCEPT !.log = <<>>, !.step = op]

(***************************************************************************)
(* A hardware state left by an earlier boot stage: every slot enabled and   *)
(* the controller on.                                                       *)
(***************************************************************************)
PriorSlot(n, i) ==
    mpu_update_region(ResetHw, n, i, i * 2^8, 8,
                      MPU_ATTR_RW_RW + MPU_ATTR_INTERNAL_SRAM, 1, 0).h.slot[i]

PriorHw(n) ==
    [ResetHw EXCEPT
        !.slot = [i \in Slots |-> IF i < n THEN PriorSlot(n, i) ELSE ResetSlot],
        !.number = IF n > 0 THEN n - 1 ELSE 0,
        !.ctrl = MPU_CTRL_BITS]

(***************************************************************************)
(* Specification SpecConfig: one call of mpu_config_region, with its        *)
(* arguments drawn from ConfigRegions, ConfigAddrs, ConfigSizes,            *)
(* ConfigAttrs and {0, 1}.                                                  *)
(***************************************************************************)
ConfigRegions == {REGION_DATA_RAM, REGION_DATA_RAM_TEXT, REGION_CHIP_RESERVED,
                  MaxRegions - 1, MaxRegions}

\* Multiples of 32 below 256, multiples of 2^(MaxSizeBit - 2) up to
\* 2^(MaxSizeBit + 2), and bases aligned to less than 32 bytes.
ConfigAddrs ==
    {32 * k : k \in 0 .. 7}
    \cup {2^(MaxSizeBit - 2) * k : k \in 0 .. 15}
    \cup {1, 4, 16, 48, 2^MaxSizeBit + 16}

\* The six-bit mantissas tried below the top size_bit.
FewMantissas == {0, 1, 4, 8, 9, 16, 24, 31}

\* 0, every size below the minimum, and for each size_bit the sizes
\* 2^size_bit + k * 2^(size_bit - 5) for k in FewMantissas (every k of
\* 0 .. 31 at the top size_bit), and sizes with a bit below the six most
\* significant ones.
ConfigSizes ==
    (0 .. 33)
    \cup {2^sb + (k * 2^sb) \div 32 :
              sb \in 5 .. (MaxSizeBit - 1), k \in FewMantissas}
    \cup {2^MaxSizeBit + k * 2^(MaxSizeBit - 5) : k \in 0 .. 31}
    \cup UNION {{2^sb + 1, 2^sb + 2^(sb - 6), 2^(sb + 1) - 1} :
                    sb \in 6 .. MaxSizeBit}

ConfigAttrs == {MPU_ATTR_XN + MPU_ATTR_NO_NO,
                MPU_ATTR_RW_RW + MPU_ATTR_INTERNAL_SRAM}

InitConfig ==
    /\ cfg \in {Board(n, TRUE, NoRange, FALSE, NoRange) : n \in {8, 16}}
    /\ hw \in {ResetHw, PriorHw(cfg.n)}
    /\ call = NoCall
    /\ rb = [phase |-> 0, slot |-> ResetHw.slot, ok |-> TRUE]
    /\ irq = NoCall
    /\ bat = NoBattery

ConfigRegion ==
    /\ call.op = "none"
    /\ \E region \in ConfigRegions, addr \in ConfigAddrs,
          size \in ConfigSizes, attr \in ConfigAttrs, enable \in {0, 1} :
          LET r == mpu_config_region(Enter(hw, "mpu_config_region"),
                                     mpu_num_regions(cfg), region, addr,
                                     size, attr, enable)
          IN  /\ hw' = r.h
              /\ call' = [op |-> "mpu_config_region", region |-> region,
                          addr |-> addr, size |-> size, attr |-> attr,
                          enable |-> enable, rv |-> r.rv,
                          pre |-> Snapshot(hw)]
    /\ UNCHANGED <<cfg, rb, irq, bat>>

NextConfig == ConfigRegion

SpecConfig == InitConfig /\ [][NextConfig]_vars

(***************************************************************************)
(* mpu_enable, mpu_disable, cpu_enable_caches                               *)
(***************************************************************************)
\* MPU_CTRL |= MPU_CTRL_PRIVDEFEN | MPU_CTRL_HFNMIENA | MPU_CTRL_ENABLE
mpu_enable(h) ==
    [Logged(h, "MPU_CTRL", 1, 0) EXCEPT !.ctrl = @ \cup MPU_CTRL_BITS]

\* MPU_CTRL &= ~(MPU_CTRL_PRIVDEFEN | MPU_CTRL_HFNMIENA | MPU_CTRL_ENABLE)
mpu_disable(h) ==
    [Logged(h, "MPU_CTRL", 0, 0) EXCEPT !.ctrl = @ \ MPU_CTRL_BITS]

cpu_enable_caches(h) ==
    [Logged(h, "cpu_enable_caches", 0, 0) EXCEPT !.caches = TRUE]

(***************************************************************************)
(* mpu_lock_rollback                                                        *)
(***************************************************************************)
\* MPU_ATTR_XN | MPU_ATTR_NO_NO
RollbackAttr == MPU_ATTR_XN + MPU_ATTR_NO_NO

\* Mutant: on 8 regions the second half is placed at start + size.
mpu_lock_rollback_SecondAtEnd(h, c, lock) ==
    LET num_mpu_regions == mpu_num_regions(c)
        rollback_region_start_address == c.rollback.start
        rollback_region_total_size == c.rollback.size
    IN
    IF REGION_ROLLBACK < num_mpu_regions
    THEN mpu_config_region(h, num_mpu_regions, REGION_ROLLBACK,
                           rollback_region_start_address,
                           rollback_region_total_size, RollbackAttr, lock)
    ELSE
      LET r1 == mpu_config_region(h, num_mpu_regions, REGION_CHIP_RESERVED,
                                  rollback_region_start_address,
                                  rollback_region_total_size \div 2,
                                  RollbackAttr, lock)
      IN
      IF r1.rv /= EC_SUCCESS THEN r1
      ELSE mpu_config_region(r1.h, num_mpu_regions, REGION_STORAGE2,
                             rollback_region_start_address
                                 + rollback_region_total_size,
                             rollback_region_total_size \div 2,
                             RollbackAttr, lock)

mpu_lock_rollback(h, c, lock) ==
    LET num_mpu_regions == mpu_num_regions(c)
        rollback_region_start_address == c.rollback.start
        rollback_region_total_size == c.rollback.size
    IN
    IF REGION_ROLLBACK < num_mpu_regions
    THEN mpu_config_region(h, num_mpu_regions, REGION_ROLLBACK,
                           rollback_region_start_address,
                           rollback_region_total_size, RollbackAttr, lock)
    ELSE
      LET r1 == mpu_config_region(h, num_mpu_regions, REGION_CHIP_RESERVED,
                                  rollback_region_start_address,
                                  rollback_region_total_size \div 2,
                                  RollbackAttr, lock)
      IN
      IF r1.rv /= EC_SUCCESS THEN r1
      ELSE mpu_config_region(r1.h, num_mpu_regions, REGION_STORAGE2,
                             rollback_region_start_address
                                 + rollback_region_total_size \div 2,
                             rollback_region_total_size \div 2,
                             RollbackAttr, lock)

(***************************************************************************)
(* mpu_pre_init                                                             *)
(***************************************************************************)
\* The fixed SRAM region base, 0x20000000.
CORTEX_M_SRAM_BASE == 2^29

\* The part of mpu_pre_init whose accesses are being recorded.
Step(h, step) == [h EXCEPT !.step = step]

\* Mutant: any region count is taken for a supported one.
UnsupportedTopology_CountUnchecked(c) == ~mpu_is_unified(c)

\* !mpu_is_unified() || (num_mpu_regions != 8 && num_mpu_regions != 16)
UnsupportedTopology(c) ==
    ~mpu_is_unified(c)
        \/ (mpu_num_regions(c) /= 8 /\ mpu_num_regions(c) /= 16)

\* Mutant: the result of a step is not looked at.
StepFailed_Ignored(rv) == FALSE

\* if (rv != EC_SUCCESS) return rv;
StepFailed(rv) == rv /= EC_SUCCESS

RECURSIVE DisableAllRegions_FromOne(_, _, _)
\* Mutant: the loop starts at slot 1.
DisableAllRegions_FromOne(h, n, i) ==
    IF i = 0 THEN DisableAllRegions_FromOne(h, n, 1)
    ELSE IF i >= n THEN Ret(h, EC_SUCCESS)
    ELSE
      LET r == mpu_update_region(h, n, i, CORTEX_M_SRAM_BASE,
                                 MPU_SIZE_BITS_MIN, 0, 0, 0)
      IN  IF r.rv /= EC_SUCCESS THEN r
          ELSE DisableAllRegions_FromOne(r.h, n, i + 1)

RECURSIVE DisableAllRegions(_, _, _)
\* for (i = 0; i < num_mpu_regions; ++i) mpu_update_region(i, ..., 0, 0, 0)
DisableAllRegions(h, n, i) ==
    IF i >= n THEN Ret(h, EC_SUCCESS)
    ELSE
      LET r == mpu_update_region(h, n, i, CORTEX_M_SRAM_BASE,
                                 MPU_SIZE_BITS_MIN, 0, 0, 0)
      IN  IF StepFailed(r.rv) THEN r ELSE DisableAllRegions(r.h, n, i + 1)

\* MPU_ATTR_XN | MPU_ATTR_RW_RW
UncachedAttr == MPU_ATTR_XN + MPU_ATTR_RW_RW

\* Mutant: the caches are enabled before the controller.
EnableCachesThenMpu(h, c) ==
    LET h1 == IF c.cache THEN cpu_enable_caches(Step(h, "caches")) ELSE h
    IN  mpu_enable(Step(h1, "enable"))

\* mpu_enable(); if (IS_ENABLED(CONFIG_ARMV7M_CACHE)) cpu_enable_caches();
EnableMpuThenCaches(h, c) ==
    LET h1 == mpu_enable(Step(h, "enable"))
    IN  IF c.cache THEN cpu_enable_caches(Step(h1, "caches")) ELSE h1

mpu_pre_init(h, c) ==
    IF ~has_mpu(c) THEN Ret(h, EC_ERROR_HW_INTERNAL)
    ELSE IF UnsupportedTopology(c) THEN Ret(h, EC_ERROR_UNIMPLEMENTED)
    ELSE
      LET num_mpu_regions == mpu_num_regions(c)
          r1 == DisableAllRegions(mpu_disable(Step(h, "clear")),
                                  num_mpu_regions, 0)
      IN
      IF StepFailed(r1.rv) THEN r1
      ELSE
        LET r2 == IF c.rollback.on
                  THEN mpu_lock_rollback(Step(r1.h, "rollback"), c, 1)
                  ELSE r1
        IN
        IF StepFailed(r2.rv) THEN r2
        ELSE
          LET r3 == IF c.cache /\ c.uncached.on
                    THEN mpu_config_region(Step(r2.h, "uncached"),
                                           num_mpu_regions,
                                           REGION_UNCACHED_RAM,
                                           c.uncached.start, c.uncached.size,
                                           UncachedAttr, 1)
                    ELSE r2
          IN
          IF StepFailed(r3.rv) THEN r3
          ELSE Ret(EnableMpuThenCaches(r3.h, c), EC_SUCCESS)

(***************************************************************************)
(* Specification Spec: a board, and the calls of mpu_pre_init,              *)
(* mpu_lock_rollback, mpu_enable and mpu_disable on it, each call atomic    *)
(* (the module runs in a single execution context).                        *)
(***************************************************************************)
Range(start, size) == [on |-> TRUE, start |-> start, size |-> size]

\* Rollback ranges: none; self-aligned; aligned to half its size only;
\* a size that is no power of two; a base aligned to 32 bytes only.  Every
\* configured range is non-empty.
RollbackConfigs ==
    {NoRange, Range(2^11, 2^11), Range(2^10, 2^11), Range(0, 2^11 + 2^6),
     Range(32, 2^11)}

\* Uncached ranges: none; self-aligned; misaligned.
UncachedConfigs == {NoRange, Range(2^12, 2^10), Range(32, 2^10)}

Boards ==
    {Board(n, u, r, c, un) :
        n \in {0, 8, 12, 16}, u \in BOOLEAN, r \in RollbackConfigs,
        c \in BOOLEAN, un \in UncachedConfigs}

\* The rollback round trip being followed: phase k after the k-th call of
\* lock(1), lock(0), lock(1) in a row, the slots after the first call, and
\* whether every call of it so far returned EC_SUCCESS.
RbIdle == [phase |-> 0, slot |-> ResetHw.slot, ok |-> TRUE]

RbAfterLock(h, lock, rv) ==
    IF lock = 1
    THEN IF rb.phase = 2
         THEN [rb EXCEPT !.phase = 3, !.ok = @ /\ rv = EC_SUCCESS]
         ELSE [phase |-> 1, slot |-> h.slot, ok |-> rv = EC_SUCCESS]
    ELSE IF rb.phase = 1
         THEN [rb EXCEPT !.phase = 2, !.ok = @ /\ rv = EC_SUCCESS]
         ELSE RbIdle

CallOf(op, lock, rv) ==
    [op |-> op, region |-> 0, addr |-> 0, size |-> 0, attr |-> 0,
     enable |-> lock, rv |-> rv, pre |-> Snapshot(hw)]

Init ==
    /\ cfg \in Boards
    /\ hw \in {ResetHw, PriorHw(cfg.n)}
    /\ call = NoCall
    /\ rb = RbIdle
    /\ irq = NoCall
    /\ bat = NoBattery

PreInit ==
    /\ LET r == mpu_pre_init(Enter(hw, "mpu_pre_init"), cfg)
       IN  hw' = r.h /\ call' = CallOf("mpu_pre_init", 0, r.rv)
    /\ rb' = RbIdle
    /\ UNCHANGED <<cfg, irq, bat>>

LockRollback ==
    /\ cfg.rollback.on
    /\ \E lock \in {0, 1} :
          LET r == mpu_lock_rollback(Enter(hw, "mpu_lock_rollback"), cfg, lock)
          IN  /\ hw' = r.h
              /\ call' = CallOf("mpu_lock_rollback", lock, r.rv)
              /\ rb' = RbAfterLock(r.h, lock, r.rv)
    /\ UNCHANGED <<cfg, irq, bat>>

Enable ==
    /\ hw' = mpu_enable(Enter(hw, "mpu_enable"))
    /\ call' = CallOf("mpu_enable", 0, EC_SUCCESS)
    /\ rb' = RbIdle
    /\ UNCHANGED <<cfg, irq, bat>>

Disable ==
    /\ hw' = mpu_disable(Enter(hw, "mpu_disable"))
    /\ call' = CallOf("mpu_disable", 0, EC_SUCCESS)
    /\ rb' = RbIdle
    /\ UNCHANGED <<cfg, irq, bat>>

Next == PreInit \/ LockRollback \/ Enable \/ Disable

Spec == Init /\ [][Next]_vars

(***************************************************************************)
(* Specification SpecUpdate: mpu_update_region run statement by statement,  *)
(* and called a second time with the same arguments once it has returned.   *)
(* call.pc is the statement the call is at.                                 *)
(***************************************************************************)
UpdateRegions == {REGION_DATA_RAM, REGION_CHIP_RESERVED, REGION_UNCACHED_RAM,
                  MaxRegions - 1, MaxRegions}

\* Bases aligned to all, to some and to none of the sizes tried; 7 * 2^8 is
\* the base PriorHw leaves in slot 7.
UpdateAddrs == {0, 16, 32, 2^8, 7 * 2^8, 2^MaxSizeBit}

UpdateSizeBits == {MPU_SIZE_BITS_MIN - 1, MPU_SIZE_BITS_MIN, 8, MaxSizeBit}

UpdateSrds == {0, 15 * 16}

\* The record of a call of mpu_update_region: its arguments, the statement
\* it is at, the hardware as it found it, whether it is the first or the
\* second call in a row, and the outcome of the first.
UpdateCall(region, addr, size_bit, attr, enable, srd, nth, first) ==
    [op |-> "mpu_update_region", pc |-> "check", region |-> region,
     addr |-> addr, size_bit |-> size_bit, attr |-> attr, enable |-> enable,
     srd |-> srd, rv |-> EC_SUCCESS, pre |-> Snapshot(hw), nth |-> nth,
     first |-> first]

Outcome(h, rv) == [rv |-> rv, post |-> Snapshot(h)]

\* Mutant: the second barrier is left out.
StatementAfter_NoBarrier(pc, enable) ==
    CASE pc = "barrier1" -> "select"
      [] pc = "select"   -> "disable"
      [] pc = "disable"  -> IF enable /= 0 THEN "base" ELSE "return"
      [] pc = "base"     -> "word"
      [] pc = "word"     -> "return"
      [] pc = "barrier2" -> "return"

\* Mutant: the base is not written.
StatementAfter_NoBase(pc, enable) ==
    CASE pc = "barrier1" -> "select"
      [] pc = "select"   -> "disable"
      [] pc = "disable"  -> IF enable /= 0 THEN "word" ELSE "barrier2"
      [] pc = "base"     -> "word"
      [] pc = "word"     -> "barrier2"
      [] pc = "barrier2" -> "return"

\* Mutant: the slot is disabled only by a call with enable 0.
StatementAfter_NotDisabled(pc, enable) ==
    CASE pc = "barrier1" -> "select"
      [] pc = "select"   -> IF enable /= 0 THEN "base" ELSE "disable"
      [] pc = "disable"  -> "barrier2"
      [] pc = "base"     -> "word"
      [] pc = "word"     -> "barrier2"
      [] pc = "barrier2" -> "return"

\* The statement that follows statement pc of a call that passed the checks.
StatementAfter(pc, enable) ==
    CASE pc = "barrier1" -> "select"
      [] pc = "select"   -> "disable"
      [] pc = "disable"  -> IF enable /= 0 THEN "base" ELSE "barrier2"
      [] pc = "base"     -> "word"
      [] pc = "word"     -> "barrier2"
      [] pc = "barrier2" -> "return"

\* The call has executed statement call.pc.
Advance ==
    LET next == StatementAfter(call.pc, call.enable)
    IN  call' = [call EXCEPT !.pc = next]

At(pc) == call.op = "mpu_update_region" /\ call.pc = pc

InitUpdate ==
    /\ cfg \in {Board(n, TRUE, NoRange, FALSE, NoRange) : n \in {8, 16}}
    /\ hw \in {ResetHw, PriorHw(cfg.n)}
    /\ call = NoCall
    /\ rb = RbIdle
    /\ irq = NoCall
    /\ bat = NoBattery

UpdateEnter ==
    /\ call.op = "none"
    /\ \E region \in UpdateRegions, addr \in UpdateAddrs,
          size_bit \in UpdateSizeBits, attr \in ConfigAttrs,
          enable \in {0, 1}, srd \in UpdateSrds :
          call' = UpdateCall(region, addr, size_bit, attr, enable, srd, 1,
                             Outcome(hw, EC_SUCCESS))
    /\ hw' = Enter(hw, "mpu_update_region")
    /\ UNCHANGED <<cfg, rb, irq, bat>>

\* The three argument checks.
UpdateCheck ==
    /\ At("check")
    /\ IF Misaligned(call.addr, call.size_bit)
          \/ NoSuchRegion(call.region, mpu_num_regions(cfg))
          \/ BelowMinBits(call.size_bit)
       THEN call' = [call EXCEPT !.pc = "return", !.rv = NEG_EC_ERROR_INVAL]
       ELSE call' = [call EXCEPT !.pc = "barrier1"]
    /\ UNCHANGED <<cfg, hw, rb, irq, bat>>

UpdateBarrier1 ==
    /\ At("barrier1")
    /\ hw' = Barrier(hw)
    /\ Advance
    /\ UNCHANGED <<cfg, rb, irq, bat>>

UpdateSelect ==
    /\ At("select")
    /\ hw' = WriteNumber(hw, call.region)
    /\ Advance
    /\ UNCHANGED <<cfg, rb, irq, bat>>

UpdateDisable ==
    /\ At("disable")
    /\ hw' = ClearEnable(hw)
    /\ Advance
    /\ UNCHANGED <<cfg, rb, irq, bat>>

UpdateBase ==
    /\ At("base")
    /\ hw' = WriteBase(hw, call.addr)
    /\ Advance
    /\ UNCHANGED <<cfg, rb, irq, bat>>

UpdateWord ==
    /\ At("word")
    /\ hw' = WriteRasr(hw, PackRasr(call.attr, call.srd, call.size_bit))
    /\ Advance
    /\ UNCHANGED <<cfg, rb, irq, bat>>

UpdateBarrier2 ==
    /\ At("barrier2")
    /\ hw' = Barrier(hw)
    /\ Advance
    /\ UNCHANGED <<cfg, rb, irq, bat>>

\* The caller calls again with the same arguments.
UpdateAgain ==
    /\ At("return")
    /\ call.nth = 1
    /\ call' = UpdateCall(call.region, call.addr, call.size_bit, call.attr,
                          call.enable, call.srd, 2, Outcome(hw, call.rv))
    /\ hw' = Enter(hw, "mpu_update_region")
    /\ UNCHANGED <<cfg, rb, irq, bat>>

NextUpdate ==
    \/ UpdateEnter \/ UpdateCheck \/ UpdateBarrier1 \/ UpdateSelect
    \/ UpdateDisable \/ UpdateBase \/ UpdateWord \/ UpdateBarrier2
    \/ UpdateAgain

SpecUpdate == InitUpdate /\ [][NextUpdate]_vars

(***************************************************************************)
(* Specification SpecIrq: a task runs mpu_update_region statement by        *)
(* statement, and an interrupt handler calls mpu_update_region once for     *)
(* another slot; the handler runs to completion between two statements of   *)
(* the task (the function masks no interrupt and takes no lock), or before  *)
(* its first or after its last.  irq.at is the statement the task was at.   *)
(***************************************************************************)
TaskRegions == {REGION_DATA_RAM, REGION_CHIP_RESERVED}

TaskAddrs == {0, 2^8, 2^MaxSizeBit}

IrqRegions == {REGION_STORAGE, REGION_CHIP_RESERVED}

IrqAddrs == {2^9, 2^MaxSizeBit}

TaskEnter ==
    /\ call.op = "none"
    /\ \E region \in TaskRegions, addr \in TaskAddrs, attr \in ConfigAttrs,
          enable \in {0, 1} :
          call' = UpdateCall(region, addr, 8, attr, enable, 0, 1,
                             Outcome(hw, EC_SUCCESS))
    /\ hw' = Enter(hw, "mpu_update_region")
    /\ UNCHANGED <<cfg, rb, irq, bat>>

Interrupt ==
    /\ call.op = "mpu_update_region"
    /\ irq.op = "none"
    /\ \E region \in IrqRegions \ {call.region}, addr \in IrqAddrs,
          enable \in {0, 1} :
          LET r == mpu_update_region(Step(hw, "irq"), mpu_num_regions(cfg),
                                     region, addr, 8, UncachedAttr, enable, 0)
          IN  /\ hw' = Step(r.h, hw.step)
              /\ irq' = [op |-> "mpu_update_region", region |-> region,
                         addr |-> addr, size_bit |-> 8,
                         attr |-> UncachedAttr, enable |-> enable,
                         srd |-> 0, rv |-> r.rv, at |-> call.pc]
    /\ UNCHANGED <<cfg, call, rb, bat>>

NextIrq ==
    \/ TaskEnter \/ UpdateCheck \/ UpdateBarrier1 \/ UpdateSelect
    \/ UpdateDisable \/ UpdateBase \/ UpdateWord \/ UpdateBarrier2
    \/ Interrupt

SpecIrq == InitUpdate /\ [][NextIrq]_vars

(***************************************************************************)
(* mpu_protect_data_ram, mpu_lock_ro_flash, mpu_lock_rw_flash                *)
(***************************************************************************)
mpu_unlock_region(h, n, region, addr, size, texscb) ==
    mpu_config_region(h, n, region, addr, size, MPU_ATTR_RW_RW + texscb, 1)

\* MPU_ATTR_XN | MPU_ATTR_RW_RW | MPU_ATTR_INTERNAL_SRAM
DataRamAttr == MPU_ATTR_XN + MPU_ATTR_RW_RW + MPU_ATTR_INTERNAL_SRAM

mpu_protect_data_ram(h, c) ==
    LET ret == mpu_config_region(h, mpu_num_regions(c), REGION_DATA_RAM,
                                 c.ram.start, c.ram.size, DataRamAttr, 1)
    IN
    IF ret.rv /= EC_SUCCESS THEN ret
    ELSE mpu_unlock_region(ret.h, mpu_num_regions(c), REGION_DATA_RAM_TEXT,
                           c.iram_text.start, c.iram_text.size,
                           MPU_ATTR_INTERNAL_SRAM)

\* MPU_ATTR_XN | MPU_ATTR_RW_RW | MPU_ATTR_FLASH_MEMORY
FlashAttr == MPU_ATTR_XN + MPU_ATTR_RW_RW + MPU_ATTR_FLASH_MEMORY

mpu_lock_ro_flash(h, c) ==
    mpu_config_region(h, mpu_num_regions(c), REGION_STORAGE,
                      c.ro.start, c.ro.size, FlashAttr, 1)

RECURSIVE LowestSetBit(_)
\* x & -x on uint32_t, x > 0: the least significant set bit of x
LowestSetBit(x) ==
    IF x = 0 THEN 0
    ELSE IF x % 2 = 1 THEN 1 ELSE 2 * LowestSetBit(x \div 2)

MIN(a, b) == IF a < b THEN a ELSE b

\* The start of the RW image is above the RO image, so never 0.
mpu_lock_rw_flash(h, c) ==
    LET mpu_attr == FlashAttr
        rw_start_address == c.rw.start
        aligned_size_bit == Fls(LowestSetBit(rw_start_address))
        first_region_size == MIN(BIT(aligned_size_bit), c.rw.size)
        second_region_address == rw_start_address + first_region_size
        second_region_size == c.rw.size - first_region_size
        r == mpu_config_region(h, mpu_num_regions(c), REGION_STORAGE,
                               rw_start_address, first_region_size,
                               mpu_attr, 1)
    IN
    IF r.rv /= EC_SUCCESS \/ second_region_size = 0 THEN r
    ELSE mpu_config_region(r.h, mpu_num_regions(c), REGION_STORAGE2,
                           second_region_address, second_region_size,
                           mpu_attr, 1)

(***************************************************************************)
(* Specification SpecProtect: a board with a rollback range and a memory    *)
(* layout, and the calls of mpu_lock_rollback, mpu_protect_data_ram,        *)
(* mpu_lock_ro_flash and mpu_lock_rw_flash on it, each call atomic.         *)
(***************************************************************************)
Layout(ram, iram_text, ro, rw) ==
    [ram |-> ram, iram_text |-> iram_text, ro |-> ro, rw |-> rw]

\* Data RAM with its __iram_text section, and the RO and RW images around
\* the rollback ranges: RO and RW a single region each; an RW image
\* aligned to half its size; an RO image whose size is no power of two;
\* an RW image of three quarters of its alignment; an RW image whose rest
\* after the first piece is no power of two.
Layouts ==
    {Layout(Range(2^14, 2^12), Range(2^14 + 2^10, 2^8),
            Range(0, 2^10), Range(2^12, 2^12)),
     Layout(Range(2^14, 2^12), Range(2^14 + 2^10, 2^8),
            Range(0, 2^10), Range(2^12 + 2^11, 2^12)),
     Layout(Range(2^14, 2^12), Range(2^14 + 2^10, 2^8),
            Range(0, 2^10 + 2^5), Range(2^12, 2^12)),
     Layout(Range(2^14, 2^12), Range(2^14 + 2^10, 2^8),
            Range(0, 2^10), Range(2^12, 2^11 + 2^10)),
     Layout(Range(2^14, 2^12), Range(2^14 + 2^10, 2^8),
            Range(0, 2^10), Range(2^12 + 2^11, 2^11 + 2^10 + 2^5))}

ProtectBoard(n, rollback, l) ==
    [n |-> n, unified |-> TRUE, rollback |-> rollback, cache |-> FALSE,
     uncached |-> NoRange, ram |-> l.ram, iram_text |-> l.iram_text,
     ro |-> l.ro, rw |-> l.rw]

\* The rollback ranges of Spec, a smaller self-aligned one, and one whose
\* half is no power of two (its first half fits one region, its second half
\* is misaligned).
ProtectRollbacks ==
    (RollbackConfigs \ {NoRange})
        \cup {Range(2^12, 2^10), Range(0, 2^11 + 2^9)}

ProtectBoards ==
    {ProtectBoard(n, r, l) :
        n \in {8, 16}, r \in ProtectRollbacks, l \in Layouts}

InitProtect ==
    /\ cfg \in ProtectBoards
    /\ hw \in {ResetHw, PriorHw(cfg.n)}
    /\ call = NoCall
    /\ rb = RbIdle
    /\ irq = NoCall
    /\ bat = NoBattery

ProtectDataRam ==
    /\ LET r == mpu_protect_data_ram(Enter(hw, "mpu_protect_data_ram"), cfg)
       IN  hw' = r.h /\ call' = CallOf("mpu_protect_data_ram", 1, r.rv)
    /\ rb' = RbIdle
    /\ UNCHANGED <<cfg, irq, bat>>

LockRoFlash ==
    /\ LET r == mpu_lock_ro_flash(Enter(hw, "mpu_lock_ro_flash"), cfg)
       IN  hw' = r.h /\ call' = CallOf("mpu_lock_ro_flash", 1, r.rv)
    /\ rb' = RbIdle
    /\ UNCHANGED <<cfg, irq, bat>>

LockRwFlash ==
    /\ LET r == mpu_lock_rw_flash(Enter(hw, "mpu_lock_rw_flash"), cfg)
       IN  hw' = r.h /\ call' = CallOf("mpu_lock_rw_flash", 1, r.rv)
    /\ rb' = RbIdle
    /\ UNCHANGED <<cfg, irq, bat>>

NextProtect == LockRollback \/ ProtectDataRam \/ LockRoFlash \/ LockRwFlash

SpecProtect == InitProtect /\ [][NextProtect]_vars

(***************************************************************************)
(* battery_is_present and battery_get_disconnect_state of                   *)
(* src/board/eve/battery.c.  env holds what the charger input, the battery  *)
(* and the presence pin answer during one call; reads is the sequence of    *)
(* reads of the battery the call made.                                      *)
(***************************************************************************)
BATTERY_NOT_DISCONNECTED == "BATTERY_NOT_DISCONNECTED"
BATTERY_DISCONNECTED == "BATTERY_DISCONNECTED"
BATTERY_DISCONNECT_ERROR == "BATTERY_DISCONNECT_ERROR"

\* Bits of byte 3 of the operation status.
BATTERY_DISCHARGING_DISABLED == 32
BATTERY_CHARGING_DISABLED == 64

\* gpio_get_level(GPIO_BATTERY_PRESENT_L) ? BP_NO : BP_YES
battery_hw_present(env) == IF env.gpio /= 0 THEN "BP_NO" ELSE "BP_YES"

\* The result r of a function of the module so far, after one more read of
\* the battery.
Read(r, what) == [r EXCEPT !.reads = Append(@, what)]

\* battery_is_present, continuing the call whose state so far is r (the
\* static variables and the reads made).
battery_is_present(r, env) ==
    LET hw_pres == battery_hw_present(env)
        first == hw_pres = "BP_YES" /\ r.batt_pres_prev /= hw_pres
                     /\ ~env.cut_off
        r1 == IF first THEN Read(r, "battery_status") ELSE r
        batt_pres == IF first /\ env.init = 0 THEN "BP_NO" ELSE hw_pres
    IN  [r1 EXCEPT !.batt_pres_prev = batt_pres, !.present = batt_pres]

\* Mutant: the battery counts as disconnected when either of charging and
\* discharging is disabled.
ChargeOrDischargeEnabled_Neither(data3) ==
    BitAnd(data3, BATTERY_DISCHARGING_DISABLED + BATTERY_CHARGING_DISABLED)
        = 0

\* ~data[3] & (BATTERY_DISCHARGING_DISABLED | BATTERY_CHARGING_DISABLED)
ChargeOrDischargeEnabled(data3) ==
    BitAnd(255 - data3,
           BATTERY_DISCHARGING_DISABLED + BATTERY_CHARGING_DISABLED) /= 0

\* rv || data[2] || data[3] || data[4] || data[5]
SafetyFault(env) ==
    env.safety_rv /= 0 \/ \E k \in 2 .. 5 : env.safety[k] /= 0

Returns(r, ret) == [r EXCEPT !.ret = ret]

Latches(r) == [r EXCEPT !.not_disconnected = 1, !.ret = BATTERY_NOT_DISCONNECTED]

battery_get_disconnect_state(b, env) ==
    LET r == [b EXCEPT !.reads = <<>>, !.present = "none"]
    IN
    IF r.not_disconnected /= 0 THEN Returns(r, BATTERY_NOT_DISCONNECTED)
    ELSE IF env.extpower
    THEN
      LET r1 == Read(r, "PARAM_OPERATION_STATUS")
      IN
      IF env.status_rv /= 0 THEN Returns(r1, BATTERY_DISCONNECT_ERROR)
      ELSE IF ChargeOrDischargeEnabled(env.status3) THEN Latches(r1)
      ELSE
        LET r2 == Read(r1, "PARAM_SAFETY_STATUS")
        IN
        IF SafetyFault(env) THEN Returns(r2, BATTERY_DISCONNECT_ERROR)
        ELSE
          LET r3 == battery_is_present(r2, env)
          IN  IF r3.present = "BP_YES"
              THEN Returns(r3, BATTERY_DISCONNECTED)
              ELSE Latches(r3)
    ELSE Latches(r)

(***************************************************************************)
(* Specification SpecBattery: calls of battery_get_disconnect_state and of  *)
(* battery_is_present, each with answers of the environment drawn anew.     *)
(***************************************************************************)
\* What the read of the operation status answers: a failure, or byte 3 with
\* no bit, each of the two bits, both, both with another bit.
StatusAnswers ==
    {[rv |-> 1, b |-> 0]} \cup {[rv |-> 0, b |-> b] : b \in {0, 32, 64, 96, 97}}

\* What the read of the safety status answers: a failure, or bytes 0 .. 5
\* with none set or one of them set.
SafetyAnswers ==
    {[rv |-> 1, data |-> [k \in 0 .. 5 |-> 0]]}
    \cup {[rv |-> 0, data |-> [k \in 0 .. 5 |-> IF k = j THEN 1 ELSE 0]] :
              j \in {0, 2, 3, 4, 5, 6}}

\* The presence pin, battery_is_cut_off() and battery_init(): no battery; a
\* battery that is not initialized, one that is, one that is cut off.
PresenceAnswers ==
    {[gpio |-> 1, cut_off |-> FALSE, init |-> 0],
     [gpio |-> 0, cut_off |-> FALSE, init |-> 0],
     [gpio |-> 0, cut_off |-> FALSE, init |-> 1],
     [gpio |-> 0, cut_off |-> TRUE, init |-> 0]}

BatteryEnvs ==
    {[extpower |-> e, status_rv |-> st.rv, status3 |-> st.b,
      safety_rv |-> sf.rv, safety |-> sf.data, gpio |-> pr.gpio,
      cut_off |-> pr.cut_off, init |-> pr.init] :
        e \in BOOLEAN, st \in StatusAnswers, sf \in SafetyAnswers,
        pr \in PresenceAnswers}

\* Some earlier call of battery_get_disconnect_state returned
\* BATTERY_NOT_DISCONNECTED.
LatchedBefore ==
    \/ bat.latched
    \/ /\ bat.op = "battery_get_disconnect_state"
       /\ bat.ret = BATTERY_NOT_DISCONNECTED

InitBattery ==
    /\ cfg = Board(8, TRUE, NoRange, FALSE, NoRange)
    /\ hw = ResetHw
    /\ call = NoCall
    /\ rb = RbIdle
    /\ irq = NoCall
    /\ bat = NoBattery

GetDisconnectState ==
    /\ \E env \in BatteryEnvs :
          bat' = [battery_get_disconnect_state(bat, env) EXCEPT
                     !.op = "battery_get_disconnect_state",
                     !.env = env, !.latched = LatchedBefore]
    /\ UNCHANGED <<cfg, hw, call, rb, irq>>

IsPresent ==
    /\ \E env \in PresenceAnswers :
          bat' = [battery_is_present([bat EXCEPT !.reads = <<>>], env) EXCEPT
                     !.op = "battery_is_present", !.ret = "none",
                     !.env = env, !.latched = LatchedBefore]
    /\ UNCHANGED <<cfg, hw, call, rb, irq>>

NextBattery == GetDisconnectState \/ IsPresent

SpecBattery == InitBattery /\ [][NextBattery]_vars

(***************************************************************************)
(* Claims about mpu_config_region, checked under SpecConfig.                *)
(***************************************************************************)
Called == call.op = "mpu_config_region"

\* The call left every register as it found it and accessed none.
NothingWritten == hw.log = <<>> /\ Snapshot(hw) = call.pre

\* size is 2^e for an e in lo .. MaxSizeBit + 1
PowerOfTwoFrom(size, lo) == \E e \in lo .. (MaxSizeBit + 1) : size = 2^e

\* C1: whenever mpu_config_region(region, addr, size, attr, 1) returns
\* EC_SUCCESS for a non-zero size, the enabled (not sub-region-disabled)
\* ranges of the slots it programmed are exactly [addr, addr + size): no byte
\* of the request is uncovered and no byte outside it is covered; no
\* programmed slot of less than 256 bytes has a sub-region disabled.
C1_ExactCover ==
    (Called /\ call.rv = EC_SUCCESS /\ call.size /= 0 /\ call.enable = 1)
        => /\ Programmed(hw) /= {}
           /\ \A i \in Programmed(hw) : SrdValid(hw.slot[i])
           /\ CoversExactly(hw, Programmed(hw), call.addr, call.size)

\* A non-power-of-two size accepted with two regions.
C1_Witness ==
    /\ Called /\ call.rv = EC_SUCCESS /\ call.enable = 1
    /\ ~PowerOfTwoFrom(call.size, 0)
    /\ Programmed(hw) = {call.region, call.region + 1}

\* The case of C2: 96 bytes at a base aligned to 128, slot and slot + 1 in
\* range, region enabled.
C2_Case ==
    /\ Called /\ call.size = 96 /\ call.addr % 128 = 0 /\ call.enable = 1
    /\ call.region + 1 < cfg.n

\* C2 as stated: for 96 bytes at a base aligned to 128 (slot and slot + 1 in
\* range) mpu_config_region succeeds with two region encodings whose enabled
\* ranges cover exactly [base, base + 96).
C2_Original ==
    C2_Case
        => /\ call.rv = EC_SUCCESS
           /\ Cardinality(Programmed(hw)) = 2
           /\ CoversExactly(hw, Programmed(hw), call.addr, call.size)

\* C2 amended: for 96 bytes at a base aligned to 128 (slot and slot + 1 in
\* range) mpu_config_region fails with -EC_ERROR_INVAL and writes no
\* register, 96 having size_bit 6 < 7; a length that does decompose, 1056
\* bytes (1024 + 32) at a base aligned to 2048 in a slot other than
\* REGION_DATA_RAM_TEXT, succeeds with two region encodings, in slot and
\* slot + 1, whose enabled ranges cover exactly [base, base + 1056).
C2_Amended ==
    /\ C2_Case => (call.rv = NEG_EC_ERROR_INVAL /\ NothingWritten)
    /\ (/\ Called /\ call.size = 1056 /\ call.addr % 2048 = 0
        /\ call.enable = 1 /\ call.region + 1 < cfg.n
        /\ call.region /= REGION_DATA_RAM_TEXT)
          => /\ call.rv = EC_SUCCESS
             /\ Programmed(hw) = {call.region, call.region + 1}
             /\ CoversExactly(hw, Programmed(hw), call.addr, call.size)

\* 96 bytes at a base aligned to 128 were requested on a hardware state with
\* enabled slots, and refused.
C2_Witness ==
    /\ C2_Case /\ call.rv = NEG_EC_ERROR_INVAL
    /\ call.addr = 128
    /\ RasrEnable(call.pre.slot[call.region].rasr) = 1

\* C3: for every length that is a power of two >= 32, every base that is a
\* multiple of it and every slot below the region count,
\* mpu_config_region with enable = 1 succeeds and programs exactly one slot:
\* size exponent log2(length), the requested base and attributes, sub-region
\* disable mask 0, enabled; every other slot is as before.
C3_PowerOfTwo ==
    (/\ Called /\ PowerOfTwoFrom(call.size, 5) /\ call.addr % call.size = 0
     /\ call.region < cfg.n /\ call.enable = 1)
        => /\ call.rv = EC_SUCCESS
           /\ Programmed(hw) = {call.region}
           /\ LET s == hw.slot[call.region] IN
                /\ 2^RasrSizeBit(s.rasr) = call.size
                /\ s.base = call.addr
                /\ RasrAttr(s.rasr) = call.attr
                /\ RasrSrd(s.rasr) = 0
                /\ RasrEnable(s.rasr) = 1
           /\ \A i \in Slots \ {call.region} : hw.slot[i] = call.pre.slot[i]

\* A power-of-two region programmed at a non-zero base over a slot that held
\* another configuration.
C3_Witness ==
    /\ Called /\ call.size = 64 /\ call.addr = 192 /\ call.enable = 1
    /\ call.region = REGION_CHIP_RESERVED /\ call.rv = EC_SUCCESS
    /\ RasrEnable(call.pre.slot[call.region].rasr) = 1

\* The sizes that pass the size checks: a power of two >= 32, or a
\* non-power-of-two with size_bit >= 7 and no bit below its six most
\* significant positions.
PassesSizeChecks(size) ==
    \/ PowerOfTwoFrom(size, 5)
    \/ /\ size >= 128
       /\ ~PowerOfTwoFrom(size, 0)
       /\ size % 2^(Fls(size) - 5) = 0

\* The region size derived from a length: the length when a power of two,
\* 2^(size_bit + 1) otherwise.
DerivedSize(size) ==
    IF PowerOfTwoFrom(size, 0) THEN size ELSE 2^(Fls(size) + 1)

\* C4: for every base and non-zero length that passes the size checks, if
\* the base is not a multiple of the derived region size,
\* mpu_config_region fails with -EC_ERROR_INVAL.
C4_Misaligned ==
    (/\ Called /\ call.size /= 0 /\ PassesSizeChecks(call.size)
     /\ call.addr % DerivedSize(call.size) /= 0)
        => call.rv = NEG_EC_ERROR_INVAL

\* A non-power-of-two length at a base aligned to half its derived region
\* size only, in a slot that exists.
C4_Witness ==
    /\ Called /\ call.size = 2^MaxSizeBit + 2^(MaxSizeBit - 1)
    /\ call.addr = 2^MaxSizeBit /\ call.region = REGION_DATA_RAM
    /\ call.rv = NEG_EC_ERROR_INVAL

\* C5: for every length from 1 to 31, mpu_config_region fails with
\* -EC_ERROR_INVAL for every base, slot, attribute and enable value, and
\* programs no slot.
C5_BelowMinimum ==
    (Called /\ call.size >= 1 /\ call.size <= 31)
        => (call.rv = NEG_EC_ERROR_INVAL /\ NothingWritten)

\* 16 bytes at an aligned base in a slot that exists.
C5_Witness ==
    /\ Called /\ call.size = 16 /\ call.addr = 32 /\ call.enable = 1
    /\ call.region = REGION_DATA_RAM /\ call.rv = NEG_EC_ERROR_INVAL

\* C6: mpu_config_region called with size 0 returns EC_SUCCESS and writes no
\* MPU register, for every slot index (even one outside the region count),
\* base (even misaligned), attribute and enable value.
C6_ZeroSize ==
    (Called /\ call.size = 0) => (call.rv = EC_SUCCESS /\ NothingWritten)

\* Size 0 for a slot outside the region count at a misaligned base, on a
\* hardware state with enabled slots.
C6_Witness ==
    /\ Called /\ call.size = 0 /\ call.region >= cfg.n /\ call.addr = 1
    /\ call.enable = 1 /\ call.rv = EC_SUCCESS
    /\ RasrEnable(hw.slot[0].rasr) = 1

(***************************************************************************)
(* Claims about mpu_pre_init and mpu_lock_rollback, checked under Spec.     *)
(***************************************************************************)
PreInitCalled == call.op = "mpu_pre_init"

\* The positions of the record of accesses with a given property.
LogIdx == 1 .. Len(hw.log)

IsLockWrite(j) == hw.log[j].step \in {"rollback", "uncached"}

IsCtrlWrite(j, on) == hw.log[j].ev = "MPU_CTRL" /\ hw.log[j].a = on

IsCachesOn(j) == hw.log[j].ev = "cpu_enable_caches"

\* C7: in every successful run of mpu_pre_init the controller is disabled
\* and every slot 0 .. region_count - 1 is written disabled before any
\* rollback-lock or uncached-region write and before the controller-enable
\* write; every such lock write happens before the controller-enable write,
\* of which there is exactly one; and the controller-enable write happens
\* before cpu_enable_caches.
C7_BootOrder ==
    (PreInitCalled /\ call.rv = EC_SUCCESS)
        => /\ Cardinality({e \in LogIdx : IsCtrlWrite(e, 1)}) = 1
           /\ \A e \in LogIdx : IsCtrlWrite(e, 1) =>
                /\ \A j \in LogIdx : IsLockWrite(j) => j < e
                /\ \A j \in LogIdx : IsCachesOn(j) => e < j
           /\ \A j \in LogIdx : (IsLockWrite(j) \/ IsCtrlWrite(j, 1)) =>
                /\ \E d \in 1 .. (j - 1) : IsCtrlWrite(d, 0)
                /\ \A k \in 0 .. (cfg.n - 1) :
                     \E d \in 1 .. (j - 1) :
                        /\ hw.log[d].step = "clear"
                        /\ hw.log[d].ev = "MPU_SIZE_DISABLE"
                        /\ hw.log[d].a = k

\* A successful boot that locked the rollback range and the uncached range
\* and enabled the caches, over the state left by an earlier boot stage.
C7_Witness ==
    /\ PreInitCalled /\ call.rv = EC_SUCCESS
    /\ \E j \in LogIdx : hw.log[j].step = "rollback"
    /\ \E j \in LogIdx : hw.log[j].step = "uncached"
    /\ \E j \in LogIdx : IsCachesOn(j)
    /\ "ENABLE" \in call.pre.ctrl

\* C8: when the hardware reports region_count 0, a non-unified map, or a
\* region_count that is neither 8 nor 16, mpu_pre_init returns an error
\* (EC_ERROR_HW_INTERNAL for count 0, EC_ERROR_UNIMPLEMENTED otherwise)
\* without any register write: no slot, no controller-control bit and no
\* cache state is changed.
C8_UnsupportedTopology ==
    (PreInitCalled /\ (cfg.n \notin {8, 16} \/ ~cfg.unified))
        => /\ call.rv = IF cfg.n = 0 THEN EC_ERROR_HW_INTERNAL
                        ELSE EC_ERROR_UNIMPLEMENTED
           /\ NothingWritten

\* mpu_pre_init on a unified MPU of 12 regions whose slots and controller
\* an earlier boot stage left enabled, with a rollback range to lock.
C8_Witness ==
    /\ PreInitCalled /\ cfg.n = 12 /\ cfg.unified /\ cfg.rollback.on
    /\ call.rv = EC_ERROR_UNIMPLEMENTED
    /\ "ENABLE" \in hw.ctrl
    /\ RasrEnable(hw.slot[REGION_ROLLBACK].rasr) = 1

\* The rollback lock of mpu_pre_init fails on this board.
RollbackStepFails ==
    cfg.rollback.on /\ mpu_lock_rollback(ResetHw, cfg, 1).rv /= EC_SUCCESS

\* The uncached-RAM region of mpu_pre_init fails on this board.
UncachedStepFails ==
    /\ cfg.cache /\ cfg.uncached.on
    /\ mpu_config_region(ResetHw, cfg.n, REGION_UNCACHED_RAM,
                         cfg.uncached.start, cfg.uncached.size,
                         UncachedAttr, 1).rv /= EC_SUCCESS

NoStepIn(steps) == \A j \in LogIdx : hw.log[j].step \notin steps

\* C9: if a step of mpu_pre_init after the capability check fails (clearing
\* a slot, mpu_lock_rollback(1), configuring the uncached-RAM region),
\* mpu_pre_init returns that error at once, performs no later step, and ends
\* with the controller enable bit cleared and the caches not enabled; it
\* returns EC_SUCCESS only if no step failed.
C9_FailFast ==
    (PreInitCalled /\ cfg.n \in {8, 16} /\ cfg.unified)
        => /\ RollbackStepFails =>
                /\ call.rv = mpu_lock_rollback(ResetHw, cfg, 1).rv
                /\ NoStepIn({"uncached", "enable", "caches"})
           /\ (~RollbackStepFails /\ UncachedStepFails) =>
                /\ call.rv = NEG_EC_ERROR_INVAL
                /\ NoStepIn({"enable", "caches"})
           /\ call.rv = EC_SUCCESS
                <=> (~RollbackStepFails /\ ~UncachedStepFails)
           /\ call.rv /= EC_SUCCESS =>
                /\ "ENABLE" \notin hw.ctrl
                /\ ~hw.caches /\ hw.caches = call.pre.caches
                /\ \A j \in LogIdx : ~IsCtrlWrite(j, 1) /\ ~IsCachesOn(j)

\* A boot on 8 regions whose rollback lock failed after it had programmed
\* REGION_CHIP_RESERVED, the controller having been on before.
C9_Witness ==
    /\ PreInitCalled /\ cfg.n = 8 /\ cfg.unified
    /\ call.rv = NEG_EC_ERROR_INVAL
    /\ "ENABLE" \in call.pre.ctrl
    /\ RasrEnable(hw.slot[REGION_CHIP_RESERVED].rasr) = 1

\* The slots of the rollback range: REGION_ROLLBACK where the MPU has it,
\* else the two slots of the halves.
RollbackSlots ==
    IF REGION_ROLLBACK < cfg.n THEN {REGION_ROLLBACK}
    ELSE {REGION_CHIP_RESERVED, REGION_STORAGE2}

SameAsFirstLock == \A i \in RollbackSlots : hw.slot[i] = rb.slot[i]

RollbackDisabled ==
    \A i \in RollbackSlots : RasrEnable(hw.slot[i].rasr) = 0

Returned == At("return")

\* The slot state the arguments of the call ask for.
RequestedSlot ==
    [base |-> call.addr,
     rasr |-> call.attr * 2^16 + call.srd * 2^8 + (call.size_bit - 1) * 2 + 1]

\* The arguments of the call fail one of the three checks.
BadArguments ==
    \/ call.region >= cfg.n
    \/ call.addr % (2^call.size_bit) /= 0
    \/ call.size_bit < 5

\* C11: mpu_update_region is idempotent: when a second call with the same
\* arguments returns, every slot (the addressed one and all others) is as
\* the first call left it, and the second call returns what the first did.
C11_Idempotent ==
    (Returned /\ call.nth = 2) =>
        /\ call.rv = call.first.rv
        /\ hw.slot = call.first.post.slot

\* A second successful call with enable 0 has returned, on the slot that an
\* earlier boot stage had left enabled at base 7 * 2^8.
C11_Witness ==
    /\ Returned /\ call.nth = 2 /\ call.rv = EC_SUCCESS
    /\ call.enable = 0
    /\ call.region = REGION_CHIP_RESERVED
    /\ RasrEnable(hw.slot[call.region].rasr) = 0
    /\ hw.slot[call.region].base = 7 * 2^8

\* The register accesses of a successful call, in order.
ExpectedAccesses ==
    LET e(ev, a, b) == [step |-> "mpu_update_region", ev |-> ev,
                        a |-> a, b |-> b]
    IN  <<e("isb_dsb", 0, 0), e("MPU_NUMBER", call.region, 0),
          e("MPU_SIZE_DISABLE", call.region, 0)>>
        \o (IF call.enable /= 0
            THEN <<e("MPU_BASE", call.region, call.addr),
                   e("MPU_SIZE", call.region, RequestedSlot.rasr)>>
            ELSE <<>>)
        \o <<e("isb_dsb", 0, 0)>>

\* C12: a successful mpu_update_region call performs, in this order: a
\* barrier, the selection of the slot, the clearing of its enable bit,
\* then only if enable is non-zero the write of the base and after it the
\* write of the packed word, then a second barrier; with enable 0 the base,
\* size, attribute and mask fields of the slot are not written.
C12_AccessOrder ==
    (Returned /\ call.rv = EC_SUCCESS) =>
        /\ hw.log = ExpectedAccesses
        /\ call.enable = 0 =>
              /\ hw.slot[call.region].base = call.pre.slot[call.region].base
              /\ hw.slot[call.region].rasr \div 2
                     = call.pre.slot[call.region].rasr \div 2

\* A successful call with enable 1 has returned, having re-programmed a slot
\* that held another configuration.
C12_Witness ==
    /\ Returned /\ call.rv = EC_SUCCESS /\ call.enable = 1
    /\ Len(hw.log) = 6
    /\ hw.slot[call.region] /= call.pre.slot[call.region]
    /\ call.pre.slot[call.region] /= ResetSlot

\* C13: mpu_update_region returns -EC_ERROR_INVAL and writes no register
\* whenever the slot index is not below the region count, the base is no
\* multiple of 2^size_bit, or size_bit is below the minimum; when it
\* succeeds, no slot other than the addressed one changes.
C13_Validation ==
    Returned =>
        /\ BadArguments =>
              /\ call.rv = NEG_EC_ERROR_INVAL
              /\ hw.log = <<>>
              /\ Snapshot(hw) = call.pre
        /\ call.rv = EC_SUCCESS =>
              /\ ~BadArguments
              /\ \A i \in Slots \ {call.region} :
                    hw.slot[i] = call.pre.slot[i]

\* A call with the slot index equal to the region count has returned, on
\* hardware whose slots were all programmed.
C13_Witness ==
    /\ Returned /\ call.region = cfg.n
    /\ call.addr % (2^call.size_bit) = 0 /\ call.size_bit >= 5
    /\ call.pre.slot[0] /= ResetSlot

\* C18: at every step of an uninterrupted mpu_update_region call, the
\* addressed slot is disabled, or enabled with exactly the configuration it
\* had before the call, or enabled with exactly the requested configuration.
C18_NoMixedState ==
    (call.op = "mpu_update_region" /\ call.region < cfg.n) =>
        LET s == hw.slot[call.region]
        IN  \/ RasrEnable(s.rasr) = 0
            \/ s = call.pre.slot[call.region]
            \/ s = RequestedSlot

\* The call is between its write of the base and its write of the packed
\* word, on a slot that was enabled with another base.
C18_Witness ==
    /\ At("word")
    /\ RasrEnable(call.pre.slot[call.region].rasr) = 1
    /\ call.pre.slot[call.region].base /= call.addr
    /\ hw.slot[call.region].base = call.addr


(***************************************************************************)
(* Further claims about mpu_config_region, checked under SpecConfig.        *)
(***************************************************************************)
\* size is no power of two.
NonPowerOfTwo(size) == size > 0 /\ ~PowerOfTwoFrom(size, 0)

\* size has a set bit below bit position size_bit - 5.
LowBitSet(size) == Fls(size) >= 5 /\ size % 2^(Fls(size) - 5) /= 0

\* The eighths of the first region do not hold all of size: a remainder is
\* left for a second region.
NeedsSecondRegion(size) ==
    NonPowerOfTwo(size) /\ Fls(size) >= 2 /\ size % 2^(Fls(size) - 2) /= 0

\* The slots of h that differ from those before the call.
ChangedSlots == {i \in Slots : hw.slot[i] /= call.pre.slot[i]}

\* C14: one call of mpu_config_region(region, ...) modifies and selects no
\* slot other than region and region + 1 (so at most two), and slot
\* region + 1 only for a length that is no power of two and leaves a
\* non-zero remainder beyond the occupied eighths of the first region.
C14_Frame ==
    Called =>
        LET touched == ChangedSlots \cup Programmed(hw)
        IN  /\ touched \subseteq {call.region, call.region + 1}
            /\ Cardinality(touched) <= 2
            /\ (call.region + 1) \in touched => NeedsSecondRegion(call.size)

\* A call has written both of its slots, each of which held another
\* configuration.
C14_Witness ==
    /\ Called /\ call.rv = EC_SUCCESS
    /\ ChangedSlots = {call.region, call.region + 1}
    /\ Programmed(hw) = ChangedSlots
    /\ call.pre.slot[call.region] /= ResetSlot

\* C16: mpu_config_region is all-or-nothing: whenever it returns an error,
\* no slot differs from what it was before the call.
C16_AllOrNothing ==
    (Called /\ call.rv /= EC_SUCCESS) => ChangedSlots = {}

\* The base is a multiple of the first region's size and the slots the
\* length needs exist.
AlignedAndInRange ==
    /\ call.addr % DerivedSize(call.size) = 0
    /\ call.region < cfg.n
    /\ NeedsSecondRegion(call.size) => call.region + 1 < cfg.n

Rejected == call.rv = NEG_EC_ERROR_INVAL /\ NothingWritten

\* C19 as stated, for calls whose base is aligned and whose slots exist: a
\* length that is no power of two, with size_bit >= 7, is rejected exactly
\* when it has a set bit below bit position size_bit - 5; with size_bit < 7
\* it is always rejected.
C19_Original ==
    (Called /\ NonPowerOfTwo(call.size) /\ AlignedAndInRange) =>
        IF Fls(call.size) >= 7
        THEN Rejected <=> LowBitSet(call.size)
        ELSE Rejected

\* C19, amended: a length that is no power of two is rejected, with no
\* register written, whenever size_bit < 7 or it has a set bit below bit
\* position size_bit - 5; a length without such a bit and with size_bit >= 7
\* is still rejected when it needs a second region and size_bit < 10 or the
\* slot is REGION_DATA_RAM_TEXT; every other such length is accepted when
\* the base is aligned and the slots it needs exist.
C19_Amended ==
    (Called /\ NonPowerOfTwo(call.size)) =>
        /\ (Fls(call.size) < 7 \/ LowBitSet(call.size)) => Rejected
        /\ (/\ NeedsSecondRegion(call.size)
            /\ (call.region = REGION_DATA_RAM_TEXT
                   \/ Fls(call.size) < 10)) => Rejected
        /\ (/\ Fls(call.size) >= 7 /\ ~LowBitSet(call.size)
            /\ AlignedAndInRange
            /\ NeedsSecondRegion(call.size) =>
                  (call.region /= REGION_DATA_RAM_TEXT
                      /\ Fls(call.size) >= 10))
              => call.rv = EC_SUCCESS

\* The length 132 = 128 + 4, whose bits all lie in its six most significant
\* positions, has been rejected at an aligned base in slot 0.
C19_Witness ==
    /\ Called /\ call.size = 132 /\ call.addr = 0 /\ call.region = 0
    /\ Rejected

\* C20: when a length that is no power of two needs a second region,
\* mpu_config_region fails with -EC_ERROR_INVAL before writing any slot if
\* the slot is REGION_DATA_RAM_TEXT or size_bit < 10; when such a length
\* (one that passes the size checks) needs no second region, the same slot
\* and size_bit are accepted at an aligned base, and only the first region
\* is written.
C20_SecondRegionCheck ==
    (/\ Called /\ NonPowerOfTwo(call.size)
     /\ (call.region = REGION_DATA_RAM_TEXT \/ Fls(call.size) < 10)) =>
        /\ NeedsSecondRegion(call.size) => Rejected
        /\ (/\ ~NeedsSecondRegion(call.size)
            /\ PassesSizeChecks(call.size)
            /\ AlignedAndInRange) =>
              /\ call.rv = EC_SUCCESS
              /\ Programmed(hw) = {call.region}

\* A length with size_bit >= 10 that needs a second region has been refused
\* in slot REGION_DATA_RAM_TEXT, at an aligned base and with slot
\* REGION_DATA_RAM_TEXT + 1 in range.
C20_Witness ==
    /\ Called /\ call.region = REGION_DATA_RAM_TEXT
    /\ Fls(call.size) >= 10 /\ ~LowBitSet(call.size)
    /\ NeedsSecondRegion(call.size)
    /\ AlignedAndInRange
    /\ call.rv = NEG_EC_ERROR_INVAL


(***************************************************************************)
(* Further claims about mpu_pre_init, checked under Spec.                   *)
(***************************************************************************)
\* The slots whose packed word the rollback lock or the uncached-RAM step
\* of the last call wrote.
LockedSlots ==
    {hw.log[j].a : j \in {k \in LogIdx : IsLockWrite(k)
                                          /\ hw.log[k].ev = "MPU_SIZE"}}

EnabledSlots == {i \in 0 .. (cfg.n - 1) : RasrEnable(hw.slot[i].rasr) = 1}

\* C17: whatever the hardware state before it, after mpu_pre_init returns
\* EC_SUCCESS the controller is enabled and the only enabled slots below
\* the region count are those written by the rollback lock and the
\* uncached-RAM step of that run.
C17_OnlyFreshSlots ==
    (PreInitCalled /\ call.rv = EC_SUCCESS) =>
        /\ "ENABLE" \in hw.ctrl
        /\ EnabledSlots \subseteq LockedSlots

\* mpu_pre_init has succeeded on hardware where every slot was enabled, and
\* has left enabled the slots of its rollback lock and no other.
C17_Witness ==
    /\ PreInitCalled /\ call.rv = EC_SUCCESS
    /\ \A i \in 0 .. (cfg.n - 1) : RasrEnable(call.pre.slot[i].rasr) = 1
    /\ EnabledSlots /= {}
    /\ EnabledSlots = LockedSlots


(***************************************************************************)
(* Claims about the protection operations, checked under SpecProtect.       *)
(***************************************************************************)
ProtectOps == {"mpu_protect_data_ram", "mpu_lock_ro_flash", "mpu_lock_rw_flash"}

\* The enabled slots of h with the no-access, execute-never attributes.
NoAccessSlots(h) ==
    {i \in 0 .. (cfg.n - 1) :
        /\ RasrEnable(h.slot[i].rasr) = 1
        /\ RasrAttr(h.slot[i].rasr) = RollbackAttr}

\* Every byte of the rollback range is covered by a no-access slot of h.
RollbackCovered(h) ==
    \A b \in Breakpoints(h, NoAccessSlots(h), cfg.rollback.start,
                         cfg.rollback.size) :
        (cfg.rollback.start <= b
            /\ b < cfg.rollback.start + cfg.rollback.size)
        => Covered(h, NoAccessSlots(h), b)

\* h is as a successful mpu_lock_rollback(1) leaves it: the rollback slots
\* are no-access slots that cover exactly the rollback range.
RollbackLocked(h) ==
    /\ RollbackSlots \subseteq NoAccessSlots(h)
    /\ CoversExactly(h, RollbackSlots, cfg.rollback.start, cfg.rollback.size)

\* C15: on an 8-region MPU, a call of mpu_protect_data_ram,
\* mpu_lock_ro_flash or mpu_lock_rw_flash that finds the rollback range
\* locked (by a successful mpu_lock_rollback(1), not undone since) selects
\* neither REGION_CHIP_RESERVED nor REGION_STORAGE2 and leaves the whole
\* rollback range covered by enabled no-access regions.
C15_RollbackStaysLocked ==
    (cfg.n = 8 /\ call.op \in ProtectOps /\ RollbackLocked(call.pre)) =>
        /\ Programmed(hw) \cap RollbackSlots = {}
        /\ RollbackCovered(hw)


\* The slot state of one single enabled no-access region of 2^size_bit
\* bytes at addr, no eighth disabled.
SingleNoAccessRegion(addr, size_bit) ==
    [base |-> addr, rasr |-> RollbackAttr * 2^16 + (size_bit - 1) * 2 + 1]

LockCalled(lock) == call.op = "mpu_lock_rollback" /\ call.enable = lock

\* The positions of the record of accesses that select slot i.
SelectsOf(i) ==
    {j \in LogIdx : hw.log[j].ev = "MPU_NUMBER" /\ hw.log[j].a = i}

\* C21: on 8 regions (REGION_ROLLBACK not below the region count) a
\* successful mpu_lock_rollback(1) writes exactly two slots, each as one
\* single region of half the rollback size, the first at the rollback start
\* and the second at start + size / 2, and the two enabled ranges together
\* are exactly [start, start + size); any call selects the slot of the
\* second half only after the first half has been programmed.
C21_TwoHalves ==
    (LockCalled(1) /\ cfg.n <= REGION_ROLLBACK) =>
        LET half == cfg.rollback.size \div 2
            first == hw.slot[REGION_CHIP_RESERVED]
            second == hw.slot[REGION_STORAGE2]
        IN  /\ call.rv = EC_SUCCESS =>
                 /\ Programmed(hw) = {REGION_CHIP_RESERVED, REGION_STORAGE2}
                 /\ half = 2^Fls(half)
                 /\ first = SingleNoAccessRegion(cfg.rollback.start,
                                                 Fls(half))
                 /\ second = SingleNoAccessRegion(cfg.rollback.start + half,
                                                  Fls(half))
                 /\ CoversExactly(hw, Programmed(hw), cfg.rollback.start,
                                  cfg.rollback.size)
            /\ SelectsOf(REGION_STORAGE2) /= {} =>
                 /\ SelectsOf(REGION_CHIP_RESERVED) /= {}
                 /\ \A j \in SelectsOf(REGION_CHIP_RESERVED),
                       k \in SelectsOf(REGION_STORAGE2) : j < k
                 /\ RasrEnable(first.rasr) = 1
                 /\ first.base = cfg.rollback.start

\* mpu_lock_rollback(1) has succeeded on 8 regions for the range
\* [1024, 3072), on hardware whose slots all held another configuration.
C21_Witness ==
    /\ LockCalled(1) /\ cfg.n = 8 /\ call.rv = EC_SUCCESS
    /\ cfg.rollback = Range(2^10, 2^11)
    /\ hw.slot[REGION_STORAGE2].base = 2^11
    /\ RasrEnable(call.pre.slot[REGION_STORAGE2].rasr) = 1
    /\ call.pre.slot[REGION_STORAGE2].base = REGION_STORAGE2 * 2^8


RwFlashCalled == call.op = "mpu_lock_rw_flash"

\* The largest power of two that divides x, x > 0.
LargestPowerOfTwoDividing(x) ==
    CHOOSE p \in {2^k : k \in 0 .. 30} :
        x % p = 0 /\ (p = 2^30 \/ x % (2 * p) /= 0)

\* The size of the first piece of the RW range.
FirstPiece ==
    IF LargestPowerOfTwoDividing(cfg.rw.start) < cfg.rw.size
    THEN LargestPowerOfTwoDividing(cfg.rw.start)
    ELSE cfg.rw.size

\* The slots among REGION_STORAGE and REGION_STORAGE2 that the call selected
\* and left enabled and execute-never.
RwSlots ==
    {i \in {REGION_STORAGE, REGION_STORAGE2} \cap Programmed(hw) :
        /\ RasrEnable(hw.slot[i].rasr) = 1
        /\ (RasrAttr(hw.slot[i].rasr) \div 2^12) % 2 = 1}

\* C22: mpu_lock_rw_flash programs the first piece of the RW range, of size
\* min(largest power of two that divides start, RW_SIZE), at a base aligned
\* to its region size, and the rest, contiguous with it, only if the first
\* piece succeeded and the rest is non-zero; and whenever it returns
\* EC_SUCCESS the enabled execute-never ranges it programmed in
\* REGION_STORAGE and REGION_STORAGE2 are exactly [start, start + RW_SIZE).
C22_RwFlashSplit ==
    RwFlashCalled =>
        /\ REGION_STORAGE \in Programmed(hw) =>
              /\ hw.slot[REGION_STORAGE].base = cfg.rw.start
              /\ cfg.rw.start % SlotSize(hw.slot[REGION_STORAGE]) = 0
              /\ SlotSize(hw.slot[REGION_STORAGE]) >= FirstPiece
        /\ REGION_STORAGE2 \in Programmed(hw) =>
              /\ REGION_STORAGE \in Programmed(hw)
              /\ \/ FirstPiece = cfg.rw.size
                 \/ hw.slot[REGION_STORAGE2].base = cfg.rw.start + FirstPiece
        /\ call.rv = EC_SUCCESS =>
              CoversExactly(hw, RwSlots, cfg.rw.start, cfg.rw.size)


(***************************************************************************)
(* Claims about interrupted calls of mpu_update_region, checked under       *)
(* SpecIrq.                                                                  *)
(***************************************************************************)
\* Both calls have returned.
BothReturned == Returned /\ irq.op = "mpu_update_region"

\* The state a call c asks for a slot that was old before it.
AskedOf(c, old) ==
    IF c.rv /= EC_SUCCESS THEN old
    ELSE IF c.enable /= 0
    THEN [base |-> c.addr,
          rasr |-> c.attr * 2^16 + c.srd * 2^8 + (c.size_bit - 1) * 2 + 1]
    ELSE [old EXCEPT !.rasr = @ - (@ % 2)]

\* The state slot i should have after the two calls.
ExpectedSlot(i) ==
    IF i = call.region THEN AskedOf(call, call.pre.slot[i])
    ELSE IF i = irq.region THEN AskedOf(irq, call.pre.slot[i])
    ELSE call.pre.slot[i]

\* The statements of the task's call that follow its selection of the slot
\* and access the selected slot.
AfterSelection == {"disable", "base", "word"}

\* C23: when the two calls of mpu_update_region run one after the other, or
\* the second runs before the first call has selected its slot or after its
\* last slot access, every slot ends with exactly the configuration
\* requested for it; the states in which it does not (C23_Witness) are
\* those of a second call run after the first call's slot selection.
C23_SequentialSafe ==
    (BothReturned /\ irq.at \notin AfterSelection) =>
        \A i \in Slots : hw.slot[i] = ExpectedSlot(i)

\* The handler ran between the task's slot selection and its write of the
\* base: both calls returned EC_SUCCESS, the slot of the handler holds the
\* configuration the task requested for its own slot, which neither call
\* requested for it, and the slot of the task has not been updated.
C23_Witness ==
    /\ BothReturned /\ irq.at = "base"
    /\ call.rv = EC_SUCCESS /\ irq.rv = EC_SUCCESS
    /\ call.enable = 1 /\ irq.enable = 1
    /\ hw.slot[irq.region] = RequestedSlot
    /\ hw.slot[irq.region] /= ExpectedSlot(irq.region)
    /\ hw.slot[call.region] /= ExpectedSlot(call.region)


(***************************************************************************)
(* Claims about battery_get_disconnect_state, checked under SpecBattery.    *)
(***************************************************************************)
GotDisconnectState == bat.op = "battery_get_disconnect_state"

\* Bit k of byte x is set.
BitSet(x, k) == (x \div 2^k) % 2 = 1

\* C24: battery_get_disconnect_state is a one-way latch: once a call has
\* returned BATTERY_NOT_DISCONNECTED, every later call returns
\* BATTERY_NOT_DISCONNECTED without reading the battery, whatever the
\* inputs; a call that returns BATTERY_DISCONNECTED or
\* BATTERY_DISCONNECT_ERROR leaves the latch unset; and
\* BATTERY_DISCONNECTED is returned only when external power is present,
\* charging and discharging are both disabled, no safety-status byte is
\* set and the battery is reported present.
C24_Latch ==
    GotDisconnectState =>
        /\ bat.latched =>
              bat.ret = BATTERY_NOT_DISCONNECTED /\ bat.reads = <<>>
        /\ bat.ret = BATTERY_NOT_DISCONNECTED <=> bat.not_disconnected = 1
        /\ bat.ret = BATTERY_DISCONNECTED =>
              /\ bat.env.extpower
              /\ bat.env.status_rv = 0
              /\ BitSet(bat.env.status3, 5) /\ BitSet(bat.env.status3, 6)
              /\ bat.env.safety_rv = 0
              /\ \A k \in 2 .. 5 : bat.env.safety[k] = 0
              /\ bat.present = "BP_YES"

\* A call after the latch was set has returned BATTERY_NOT_DISCONNECTED
\* although its inputs are those of a disconnected battery.
C24_Witness ==
    /\ GotDisconnectState /\ bat.latched
    /\ bat.ret = BATTERY_NOT_DISCONNECTED
    /\ bat.env.extpower /\ bat.env.status_rv = 0 /\ bat.env.status3 = 96
    /\ bat.env.safety_rv = 0 /\ \A k \in 0 .. 5 : bat.env.safety[k] = 0
    /\ bat.env.gpio = 0 /\ bat.env.init = 1

=============================================================================
